---- MODULE Spec2Model ----
(***************************************************************************)
(* Model of rust-async-dnssd's record query stream                         *)
(* (src/service/query_record.rs) and record lifecycle                      *)
(* (src/service/records.rs).                                               *)
(*                                                                         *)
(* Two components share the module:                                        *)
(*   - the query side: query_record() starts a native query whose reply    *)
(*     callback (query_record_callback) pushes io::Result items onto an    *)
(*     unbounded channel drained by QueryRecord::poll;                     *)
(*   - the record side: Record values created on a Registration or         *)
(*     Connection, which can be dropped, kept, or used.                    *)
(* ServiceStream, EventedDNSService, raw::DNSService, raw::DNSRecord, cstr  *)
(* and error are crate modules whose text is not part of the two source    *)
(* files; their behaviour is taken from the design specification.          *)
(***************************************************************************)
EXTENDS Integers, Sequences, FiniteSets, TLC

(***************************************************************************)
(* Bounds of the model.                                                    *)
(***************************************************************************)
\* callback invocations the native subsystem makes for one query
MaxCallbacks == 3
\* replies one process-pending-replies call drains
MaxBatch == 2
\* records added to one Registration/Connection
MaxRecords == 2

(***************************************************************************)
(* Native flag bits named by the flag mappings.                            *)
(***************************************************************************)
FLAGS_MORE_COMING == 1
FLAGS_ADD == 2
FLAGS_LONG_LIVED_QUERY == 256

\* native flag words checked: 0 .. 2^NativeBits - 1
NativeBits == 9

VARIABLES
    \* ---- query side ----
    stream,        \* the QueryRecord value: unstarted / err_name / err_native /
                   \* err_evented /
                   \* live / dropping / dropped
    receiver,      \* consumer end of the channel: none / alive / dropped
    sender,        \* boxed producer end handed out as context: none / valid / freed
    handle,        \* native query handle: none / active / released
    releases,      \* native release calls made on the query handle
    startCalls,    \* native start-query calls made
    channel,       \* items buffered in the channel, oldest first
    terminated,    \* the stream observed a fatal native error
    wakeup,        \* the task is registered for a readiness wakeup
    lastPoll,      \* what the latest poll returned
    crashed,       \* no / abort / unwind: a panic inside the extern "C" callback
    \* ---- query side, history ----
    cbCount,       \* callback invocations so far
    invoked,       \* the arguments of every callback invocation made while
                   \* the receiver was alive, in order
    pushed,        \* every item pushed while the receiver was alive, in order
    yielded,       \* every item a poll returned, in order
    polls,         \* polls made so far, modulo 2 (a tick that tells polls apart)
    fatalSeen,     \* process-pending-replies reported a fatal error
    cbRxDropped,   \* a callback ran while the receiver was dropped
    cbSenderFreed, \* a callback ran while the sender was freed
    \* ---- record side ----
    owner,         \* the Registration/Connection value: alive / dropped
    regHandle,     \* its native handle: active / released
    regReleases,   \* native release calls made on it
    regVia,        \* what let go of the handle last: none / owner_drop /
                   \* record_drop / record_keep
    rec,           \* Record values: none / live / kept / dropped
    refs,          \* records whose raw::DNSRecord holds the owner alive
    nrec,          \* native record resources: none / registered / released
    nrecReleases,  \* native releases of each record resource
    nrecBy,        \* what released each record resource: none / record_drop /
                   \* handle_release
    lastCall,      \* result of the latest rr_type / update_raw_record call
    usedReleased,  \* a Record method ran against a released owner
    \* ---- conversions ----
    probe          \* the latest application of a flag conversion or of the
                   \* callback's decoding to one input, with its result

queryVars == <<stream, receiver, sender, handle, releases, startCalls, channel, terminated,
               wakeup, lastPoll, crashed, cbCount, invoked, pushed, yielded,
               polls, fatalSeen, cbRxDropped, cbSenderFreed>>

recordVars == <<owner, regHandle, regReleases, regVia, rec, refs, nrec, nrecReleases, nrecBy,
                lastCall, usedReleased>>

vars == <<queryVars, recordVars, probe>>

(***************************************************************************)
(* Flag sets: QueriedRecordFlags(u8), one bit per enum member              *)
(* (MoreComing = 0, Add = 1), decoded from the native flags by the          *)
(* flag_mapping table.                                                     *)
(***************************************************************************)
BitAnd1(n, bit) == ((n \div bit) % 2) * bit

MoreComing == 0
Add == 1

RECURSIVE Pow2(_)
Pow2(k) == IF k = 0 THEN 1 ELSE 2 * Pow2(k - 1)

RECURSIVE BitAnd(_, _)
BitAnd(a, b) ==
    IF a = 0 \/ b = 0 THEN 0
    ELSE (a % 2) * (b % 2) + 2 * BitAnd(a \div 2, b \div 2)

RECURSIVE BitOr(_, _)
BitOr(a, b) ==
    IF a = 0 THEN b
    ELSE IF b = 0 THEN a
    ELSE (IF a % 2 = 1 \/ b % 2 = 1 THEN 1 ELSE 0) + 2 * BitOr(a \div 2, b \div 2)

\* Variant: the native word is cast to the u8 set instead of being mapped
\* bit by bit through the table.
QueriedRecordFlagsFrom_RawCast(native) == native % 256

QueriedRecordFlagsFrom(native) ==
    (IF BitAnd1(native, FLAGS_MORE_COMING) # 0 THEN Pow2(MoreComing) ELSE 0)
  + (IF BitAnd1(native, FLAGS_ADD) # 0 THEN Pow2(Add) ELSE 0)

FlagsContain(set, flag) == BitAnd1(set, Pow2(flag)) # 0

\* From<QueriedRecordFlags> for ffi::DNSServiceFlags
QueriedRecordFlagsInto(set) ==
    BitOr(IF FlagsContain(set, MoreComing) THEN FLAGS_MORE_COMING ELSE 0,
          IF FlagsContain(set, Add) THEN FLAGS_ADD ELSE 0)

\* QueryRecordFlags(u8), one member: LongLivedQuery = 0
LongLivedQuery == 0

QueryRecordFlagsFrom(native) ==
    IF BitAnd(native, FLAGS_LONG_LIVED_QUERY) # 0 THEN Pow2(LongLivedQuery) ELSE 0

QueryRecordFlagsInto(set) ==
    IF FlagsContain(set, LongLivedQuery) THEN FLAGS_LONG_LIVED_QUERY ELSE 0

\* the native bits each mapping table names, and the bits of the u8 set
\* that stand for declared members
QueriedKnownMask == BitOr(FLAGS_MORE_COMING, FLAGS_ADD)
QueryKnownMask == FLAGS_LONG_LIVED_QUERY
QueriedDeclared == BitOr(Pow2(MoreComing), Pow2(Add))
QueryDeclared == Pow2(LongLivedQuery)

NativeWords == 0 .. (Pow2(NativeBits) - 1)

(***************************************************************************)
(* The arguments of one callback invocation.  fullname is the C string     *)
(* at the pointer (BadCStr: bytes that do not decode); rdata is the        *)
(* memory at the data pointer, of which rd_len bytes belong to the reply.  *)
(***************************************************************************)
BadCStr == "<malformed>"

ArgsA == [flags |-> 2, interface_index |-> 0, error_code |-> 0,
          fullname |-> "example.local.", rr_type |-> 1, rr_class |-> 1,
          rd_len |-> 4, rdata |-> <<127, 0, 0, 1>>, ttl |-> 120]

ArgsB == [flags |-> 5, interface_index |-> 3, error_code |-> 0,
          fullname |-> "b.local.", rr_type |-> 16, rr_class |-> 1,
          rd_len |-> 0, rdata |-> <<>>, ttl |-> 60]

ArgsErr == [flags |-> 0, interface_index |-> 0, error_code |-> -65537,
            fullname |-> BadCStr, rr_type |-> 0, rr_class |-> 0,
            rd_len |-> 0, rdata |-> <<>>, ttl |-> 0]

ArgsBadName == [flags |-> 2, interface_index |-> 0, error_code |-> 0,
                fullname |-> BadCStr, rr_type |-> 1, rr_class |-> 1,
                rd_len |-> 1, rdata |-> <<9>>, ttl |-> 10]

CallbackArgs == {ArgsA, ArgsB, ArgsErr, ArgsBadName}

(***************************************************************************)
(* query_record_callback, lines 130-143: the item built from the           *)
(* arguments.                                                              *)
(***************************************************************************)
\* Error::from(error_code): Ok(()) for the success code, else the typed error
ErrorFrom(error_code) ==
    IF error_code = 0
    THEN [ok |-> TRUE]
    ELSE [ok |-> FALSE, err |-> [kind |-> "ServiceError", code |-> error_code]]

\* cstr::from_cstr(fullname): the decoded name, or a decoding error
FromCStr(fullname) ==
    IF fullname = BadCStr
    THEN [ok |-> FALSE, err |-> [kind |-> "DecodingError", code |-> 0]]
    ELSE [ok |-> TRUE, val |-> fullname]

\* slice::from_raw_parts(rdata, rd_len).into()
FromRawParts(rdata, rd_len) == SubSeq(rdata, 1, rd_len)

\* Interface::from_raw(interface_index): index 0 is "any interface", every
\* other value names one interface; into_raw is its inverse
InterfaceFromRaw(i) ==
    IF i = 0 THEN [kind |-> "Any"] ELSE [kind |-> "Index", index |-> i]

InterfaceIntoRaw(iface) ==
    IF iface.kind = "Any" THEN 0 ELSE iface.index

\* Variant: the record type and class are stored in each other's field.
CallbackData_SwapsTypeClass(a) ==
    IF ~ErrorFrom(a.error_code).ok
    THEN [ok |-> FALSE, err |-> ErrorFrom(a.error_code).err]
    ELSE IF ~FromCStr(a.fullname).ok
    THEN [ok |-> FALSE, err |-> FromCStr(a.fullname).err]
    ELSE [ok |-> TRUE,
          val |-> [flags |-> QueriedRecordFlagsFrom(a.flags),
                   interface |-> InterfaceFromRaw(a.interface_index),
                   fullname |-> FromCStr(a.fullname).val,
                   rr_type |-> a.rr_class,
                   rr_class |-> a.rr_type,
                   rdata |-> FromRawParts(a.rdata, a.rd_len),
                   ttl |-> a.ttl]]

\* Variant: the error code is not looked at, every reply is decoded.
CallbackData_IgnoresErrorCode(a) ==
    IF ~FromCStr(a.fullname).ok
    THEN [ok |-> FALSE, err |-> FromCStr(a.fullname).err]
    ELSE [ok |-> TRUE,
          val |-> [flags |-> QueriedRecordFlagsFrom(a.flags),
                   interface |-> InterfaceFromRaw(a.interface_index),
                   fullname |-> FromCStr(a.fullname).val,
                   rr_type |-> a.rr_type,
                   rr_class |-> a.rr_class,
                   rdata |-> FromRawParts(a.rdata, a.rd_len),
                   ttl |-> a.ttl]]

CallbackData(a) ==
    IF ~ErrorFrom(a.error_code).ok
    THEN [ok |-> FALSE, err |-> ErrorFrom(a.error_code).err]
    ELSE IF ~FromCStr(a.fullname).ok
    THEN [ok |-> FALSE, err |-> FromCStr(a.fullname).err]
    ELSE [ok |-> TRUE,
          val |-> [flags |-> QueriedRecordFlagsFrom(a.flags),
                   interface |-> InterfaceFromRaw(a.interface_index),
                   fullname |-> FromCStr(a.fullname).val,
                   rr_type |-> a.rr_type,
                   rr_class |-> a.rr_class,
                   rdata |-> FromRawParts(a.rdata, a.rd_len),
                   ttl |-> a.ttl]]

(***************************************************************************)
(* UnboundedSender::send: appends to the channel while the receiver is     *)
(* alive; fails with SendError once the receiver is gone.                  *)
(***************************************************************************)
SenderSend(ch, rx, data) ==
    IF rx = "alive"
    THEN [ok |-> TRUE, channel |-> Append(ch, data)]
    ELSE [ok |-> FALSE, channel |-> ch]

(***************************************************************************)
(* query_record_callback, lines 114-146, as a function of the channel it   *)
(* is handed: the channel afterwards, and whether the call returned or the *)
(* unwrap() of line 145 panicked.                                          *)
(***************************************************************************)
\* Variant: a push that gives up when an item is already buffered, as a
\* try_send on a channel of capacity one would.
query_record_callback_DropsWhenBuffered(ch, rx, a) ==
    LET sent == SenderSend(ch, rx, CallbackData(a))
    IN  [channel |-> IF ch # <<>> THEN ch ELSE sent.channel,
         result |-> IF sent.ok THEN "returned" ELSE "panic"]

\* Variant: a reply whose name does not decode is dropped on the spot,
\* nothing is sent for it.
query_record_callback_SkipsBadName(ch, rx, a) ==
    LET sent == SenderSend(ch, rx, CallbackData(a))
        skip == a.error_code = 0 /\ ~FromCStr(a.fullname).ok
    IN  [channel |-> IF skip THEN ch ELSE sent.channel,
         result |-> IF sent.ok \/ skip THEN "returned" ELSE "panic"]

query_record_callback(ch, rx, a) ==
    LET sent == SenderSend(ch, rx, CallbackData(a))
    IN  [channel |-> sent.channel,
         result |-> IF sent.ok THEN "returned" ELSE "panic"]

\* What a panic inside an extern "C" function can do: the build either
\* aborts the process or unwinds into the native caller's frames.
PanicOutcomes == {"abort", "unwind"}

(***************************************************************************)
(* Initial state: no query started; one Registration/Connection            *)
(* successfully started, with no records yet.                              *)
(***************************************************************************)
Records == 1 .. MaxRecords

Init ==
    /\ stream = "unstarted"
    /\ receiver = "none"
    /\ sender = "none"
    /\ handle = "none"
    /\ releases = 0
    /\ startCalls = 0
    /\ channel = <<>>
    /\ terminated = FALSE
    /\ wakeup = FALSE
    /\ lastPoll = "none"
    /\ crashed = "no"
    /\ cbCount = 0
    /\ invoked = <<>>
    /\ pushed = <<>>
    /\ yielded = <<>>
    /\ polls = 0
    /\ fatalSeen = FALSE
    /\ cbRxDropped = FALSE
    /\ cbSenderFreed = FALSE
    /\ owner = "alive"
    /\ regHandle = "active"
    /\ regReleases = 0
    /\ regVia = "none"
    /\ rec = [r \in Records |-> "none"]
    /\ refs = {}
    /\ nrec = [r \in Records |-> "none"]
    /\ nrecReleases = [r \in Records |-> 0]
    /\ nrecBy = [r \in Records |-> "none"]
    /\ lastCall = [op |-> "none"]
    /\ usedReleased = FALSE
    /\ probe = [op |-> "none"]

(***************************************************************************)
(* query_record, lines 151-175.  The name is converted first (line 159);   *)
(* ServiceStream::new then creates the channel, boxes the sender and       *)
(* passes its address as the context of the native start-query call        *)
(* (lines 161-171).  outcome is what the name conversion and the native    *)
(* call answer.  A name that does not convert returns before anything is   *)
(* created.  When the native call answers an error the `?` of line 171      *)
(* leaves the closure with no handle made, and the channel and the boxed    *)
(* sender die with ServiceStream::new.  When the Evented Bridge cannot be   *)
(* set up, the raw handle passed to it is dropped, which releases it.       *)
(***************************************************************************)
StartOutcomes == {"bad_name", "native_error", "evented_error", "ok"}

\* Variant: the name is converted only after the native call was made.
query_record_ConvertsNameLate(outcome) ==
    /\ stream = "unstarted"
    /\ crashed = "no"
    /\ IF outcome = "ok"
       THEN /\ stream' = "live"
            /\ receiver' = "alive"
            /\ sender' = "valid"
            /\ handle' = "active"
            /\ startCalls' = startCalls + 1
            /\ UNCHANGED releases
       ELSE IF outcome = "bad_name"
       THEN /\ stream' = "err_name"
            /\ startCalls' = startCalls + 1
            /\ UNCHANGED <<receiver, sender, handle, releases>>
       ELSE IF outcome = "native_error"
       THEN /\ stream' = "err_native"
            /\ receiver' = "dropped"
            /\ sender' = "freed"
            /\ startCalls' = startCalls + 1
            /\ UNCHANGED <<handle, releases>>
       ELSE /\ stream' = "err_evented"
            /\ receiver' = "dropped"
            /\ sender' = "freed"
            /\ startCalls' = startCalls + 1
            /\ handle' = "released"
            /\ releases' = releases + 1
    /\ UNCHANGED <<channel, terminated, wakeup, lastPoll, crashed,
                   cbCount, invoked, pushed, yielded, polls, fatalSeen,
                   cbRxDropped, cbSenderFreed>>
    /\ UNCHANGED <<recordVars, probe>>

\* Variant: the context is the address of a sender that dies when
\* query_record returns.
query_record_DanglingContext(outcome) ==
    /\ stream = "unstarted"
    /\ crashed = "no"
    /\ IF outcome = "ok"
       THEN /\ stream' = "live"
            /\ receiver' = "alive"
            /\ sender' = "freed"
            /\ handle' = "active"
            /\ startCalls' = startCalls + 1
            /\ UNCHANGED releases
       ELSE IF outcome = "bad_name"
       THEN /\ stream' = "err_name"
            /\ startCalls' = startCalls
            /\ UNCHANGED <<receiver, sender, handle, releases>>
       ELSE IF outcome = "native_error"
       THEN /\ stream' = "err_native"
            /\ receiver' = "dropped"
            /\ sender' = "freed"
            /\ startCalls' = startCalls + 1
            /\ UNCHANGED <<handle, releases>>
       ELSE /\ stream' = "err_evented"
            /\ receiver' = "dropped"
            /\ sender' = "freed"
            /\ startCalls' = startCalls + 1
            /\ handle' = "released"
            /\ releases' = releases + 1
    /\ UNCHANGED <<channel, terminated, wakeup, lastPoll, crashed,
                   cbCount, invoked, pushed, yielded, polls, fatalSeen,
                   cbRxDropped, cbSenderFreed>>
    /\ UNCHANGED <<recordVars, probe>>

query_record(outcome) ==
    /\ stream = "unstarted"
    /\ crashed = "no"
    /\ IF outcome = "ok"
       THEN /\ stream' = "live"
            /\ receiver' = "alive"
            /\ sender' = "valid"
            /\ handle' = "active"
            /\ startCalls' = startCalls + 1
            /\ UNCHANGED releases
       ELSE IF outcome = "bad_name"
       THEN /\ stream' = "err_name"
            /\ startCalls' = startCalls
            /\ UNCHANGED <<receiver, sender, handle, releases>>
       ELSE IF outcome = "native_error"
       THEN /\ stream' = "err_native"
            /\ receiver' = "dropped"
            /\ sender' = "freed"
            /\ startCalls' = startCalls + 1
            /\ UNCHANGED <<handle, releases>>
       ELSE /\ stream' = "err_evented"
            /\ receiver' = "dropped"
            /\ sender' = "freed"
            /\ startCalls' = startCalls + 1
            /\ handle' = "released"
            /\ releases' = releases + 1
    /\ UNCHANGED <<channel, terminated, wakeup, lastPoll, crashed,
                   cbCount, invoked, pushed, yielded, polls, fatalSeen,
                   cbRxDropped, cbSenderFreed>>
    /\ UNCHANGED <<recordVars, probe>>

(***************************************************************************)
(* The native subsystem invokes the reply callback for one reply.  It      *)
(* does so only for a handle that is started and not yet released.         *)
(***************************************************************************)
NativeCallback(a) ==
    /\ crashed = "no"
    /\ handle = "active"
    /\ cbCount < MaxCallbacks
    /\ LET r == query_record_callback(channel, receiver, a)
       IN  /\ channel' = r.channel
           /\ invoked' = (IF receiver = "alive" THEN Append(invoked, a)
                          ELSE invoked)
           /\ pushed' = (IF receiver = "alive"
                         THEN Append(pushed, CallbackData(a)) ELSE pushed)
           /\ IF r.result = "panic"
              THEN crashed' \in PanicOutcomes
              ELSE IF sender = "freed"
              THEN crashed' \in {"no"} \cup PanicOutcomes  \* use after free
              ELSE crashed' = crashed
    /\ cbCount' = cbCount + 1
    /\ cbRxDropped' = (cbRxDropped \/ receiver = "dropped")
    /\ cbSenderFreed' = (cbSenderFreed \/ sender = "freed")
    /\ UNCHANGED <<stream, receiver, sender, handle, releases, startCalls, terminated,
                   wakeup, lastPoll, yielded, polls, fatalSeen>>
    /\ UNCHANGED <<recordVars, probe>>

(***************************************************************************)
(* Process-pending-replies, driven by a poll: the native dispatch invokes  *)
(* the callback once per ready reply, in order.  The receiver is alive     *)
(* for the whole call, since the poll borrows the stream.                  *)
(***************************************************************************)
RECURSIVE Dispatch(_, _)
Dispatch(ch, batch) ==
    IF batch = <<>>
    THEN ch
    ELSE Dispatch(query_record_callback(ch, "alive", Head(batch)).channel,
                  Tail(batch))

RECURSIVE DataOf(_)
DataOf(batch) ==
    IF batch = <<>> THEN <<>>
    ELSE <<CallbackData(Head(batch))>> \o DataOf(Tail(batch))

Batches == UNION {[1 .. n -> CallbackArgs] : n \in 0 .. MaxBatch}

ProcessOutcomes == {"ok", "fatal"}

PollResults == {"Item", "ItemErr", "NotReady", "Fatal", "Ended"}

(***************************************************************************)
(* ServiceStream::poll, the Result Stream's state machine.                 *)
(*   Terminated: the poll returns stream-ended.                            *)
(*   Idle (channel empty): the poll drives the Evented Bridge once; a      *)
(*     fatal error of the native process call is returned as the terminal  *)
(*     error and the stream becomes Terminated; otherwise the replies of   *)
(*     batch are dispatched to the callback.                               *)
(*   Draining (channel non-empty, before or after the dispatch): the       *)
(*     oldest item is popped and returned.                                 *)
(*   Nothing buffered: NotReady, and the task is registered for wakeup.    *)
(* out is the value the poll returns.                                      *)
(***************************************************************************)
StreamState ==
    IF terminated THEN "Terminated"
    ELSE IF channel # <<>> THEN "Draining"
    ELSE "Idle"

ServiceStreamPoll(proc, batch, out) ==
    /\ stream = "live"
    /\ crashed = "no"
    /\ polls' = (polls + 1) % 2
    /\ IF StreamState = "Terminated"
       THEN /\ proc = "ok" /\ batch = <<>>
            /\ out = "Ended"
            /\ UNCHANGED <<channel, terminated, wakeup, cbCount, invoked,
                           pushed, yielded, fatalSeen>>
       ELSE IF StreamState = "Idle" /\ proc = "fatal"
       THEN /\ batch = <<>>
            /\ out = "Fatal"
            /\ terminated' = TRUE
            /\ fatalSeen' = TRUE
            /\ wakeup' = FALSE
            /\ UNCHANGED <<channel, cbCount, invoked, pushed, yielded>>
       ELSE /\ proc = "ok"
            /\ IF StreamState = "Idle"
               THEN cbCount + Len(batch) <= MaxCallbacks
               ELSE batch = <<>>
            /\ LET ch1 == Dispatch(channel, batch)
               IN  IF ch1 = <<>>
                   THEN /\ out = "NotReady"
                        /\ wakeup' = TRUE
                        /\ channel' = ch1
                        /\ yielded' = yielded
                   ELSE /\ out = (IF Head(ch1).ok THEN "Item" ELSE "ItemErr")
                        /\ wakeup' = FALSE
                        /\ channel' = Tail(ch1)
                        /\ yielded' = Append(yielded, Head(ch1))
            /\ cbCount' = cbCount + Len(batch)
            /\ invoked' = invoked \o batch
            /\ pushed' = pushed \o DataOf(batch)
            /\ UNCHANGED <<terminated, fatalSeen>>
    /\ UNCHANGED <<stream, receiver, sender, handle, releases, startCalls, crashed,
                   cbRxDropped, cbSenderFreed>>
    /\ UNCHANGED <<recordVars, probe>>

(***************************************************************************)
(* QueryRecord::poll, lines 82-84: self.0.poll(), returned unchanged.      *)
(***************************************************************************)
\* Variant: the inner stream's error is swallowed and reported as NotReady.
QueryRecordPoll_SwallowsError(proc, batch) ==
    \E out \in PollResults :
        /\ ServiceStreamPoll(proc, batch, out)
        /\ lastPoll' = (IF out = "Fatal" THEN "NotReady" ELSE out)

\* Variant: an error item is taken off the channel but reported as NotReady.
QueryRecordPoll_HidesErrorItem(proc, batch) ==
    \E out \in PollResults :
        /\ ServiceStreamPoll(proc, batch, out)
        /\ lastPoll' = (IF out = "ItemErr" THEN "NotReady" ELSE out)

QueryRecordPoll(proc, batch) ==
    \E out \in PollResults :
        /\ ServiceStreamPoll(proc, batch, out)
        /\ lastPoll' = out

(***************************************************************************)
(* Dropping the QueryRecord value (line 76: it owns the ServiceStream).    *)
(* The consumer end of the channel goes first, and the items buffered in   *)
(* it with it; the Raw Domain Handle is then released, and only after      *)
(* that is the boxed sender freed.                                         *)
(***************************************************************************)
ServiceStreamDropReceiver ==
    /\ receiver' = "dropped"
    /\ channel' = <<>>
    /\ wakeup' = FALSE

\* Variant: the inner stream is forgotten instead of dropped.
QueryRecordDrop_Leaks ==
    /\ stream = "live"
    /\ crashed = "no"
    /\ stream' = "dropped"
    /\ UNCHANGED <<receiver, sender, handle, releases, startCalls, channel, terminated,
                   wakeup, lastPoll, crashed, cbCount, invoked, pushed,
                   yielded, polls, fatalSeen, cbRxDropped, cbSenderFreed>>
    /\ UNCHANGED <<recordVars, probe>>

QueryRecordDrop ==
    /\ stream = "live"
    /\ crashed = "no"
    /\ stream' = "dropping"
    /\ ServiceStreamDropReceiver
    /\ UNCHANGED <<sender, handle, releases, startCalls, terminated, lastPoll, crashed,
                   cbCount, invoked, pushed, yielded, polls, fatalSeen, cbRxDropped,
                   cbSenderFreed>>
    /\ UNCHANGED <<recordVars, probe>>

\* the native release of the handle, guarded by its one-shot flag
ReleaseHandle ==
    /\ stream = "dropping"
    /\ crashed = "no"
    /\ handle = "active"
    /\ handle' = "released"
    /\ releases' = releases + 1
    /\ UNCHANGED <<stream, receiver, sender, startCalls, channel, terminated, wakeup,
                   lastPoll, crashed, cbCount, invoked, pushed, yielded, polls,
                   fatalSeen, cbRxDropped, cbSenderFreed>>
    /\ UNCHANGED <<recordVars, probe>>

FreeSender ==
    /\ stream = "dropping"
    /\ crashed = "no"
    /\ handle = "released"
    /\ sender = "valid"
    /\ sender' = "freed"
    /\ stream' = "dropped"
    /\ UNCHANGED <<receiver, handle, releases, startCalls, channel, terminated, wakeup,
                   lastPoll, crashed, cbCount, invoked, pushed, yielded, polls,
                   fatalSeen, cbRxDropped, cbSenderFreed>>
    /\ UNCHANGED <<recordVars, probe>>

QueryNext ==
    \/ \E o \in StartOutcomes : query_record(o)
    \/ \E a \in CallbackArgs : NativeCallback(a)
    \/ \E proc \in ProcessOutcomes, batch \in Batches : QueryRecordPoll(proc, batch)
    \/ QueryRecordDrop
    \/ ReleaseHandle
    \/ FreeSender

SpecQ == Init /\ [][QueryNext]_vars

(***************************************************************************)
(* Record side.  The native handle of a Registration/Connection is shared  *)
(* by the owner value and by every Record created on it (a Record "keeps   *)
(* the underlying Registration or Connection alive", records.rs lines      *)
(* 13-14); it is released, once, when the last of them lets go.  The       *)
(* native release of the handle releases every record resource still       *)
(* registered on it.                                                       *)
(***************************************************************************)
RawRelease(via, ownerNow, refsNow, nrecNow, relNow, byNow) ==
    IF ownerNow = "dropped" /\ refsNow = {} /\ regHandle = "active"
    THEN /\ regHandle' = "released"
         /\ regReleases' = regReleases + 1
         /\ regVia' = via
         /\ nrec' = [r \in Records |->
                        IF nrecNow[r] = "registered" THEN "released" ELSE nrecNow[r]]
         /\ nrecReleases' = [r \in Records |->
                        IF nrecNow[r] = "registered" THEN relNow[r] + 1 ELSE relNow[r]]
         /\ nrecBy' = [r \in Records |->
                        IF nrecNow[r] = "registered" THEN "handle_release" ELSE byNow[r]]
    ELSE /\ UNCHANGED <<regHandle, regReleases, regVia>>
         /\ nrec' = nrecNow
         /\ nrecReleases' = relNow
         /\ nrecBy' = byNow

\* new_record, lines 49-51: the Record wraps the raw::DNSRecord it is given
new_record(r) == [rec EXCEPT ![r] = "live"]

\* add-record on the owner: registers the native record and returns a Record
AddRecord(r) ==
    /\ owner = "alive"
    /\ rec[r] = "none"
    /\ rec' = new_record(r)
    /\ refs' = refs \cup {r}
    /\ nrec' = [nrec EXCEPT ![r] = "registered"]
    /\ UNCHANGED <<owner, regHandle, regReleases, regVia, nrecReleases,
                   nrecBy, lastCall, usedReleased>>
    /\ UNCHANGED <<queryVars, probe>>

\* Record::rr_type, lines 19-21
RrType(r) ==
    /\ rec[r] = "live"
    /\ lastCall' = [op |-> "rr_type", record |-> r, owner |-> owner]
    /\ usedReleased' = (usedReleased \/ regHandle = "released")
    /\ UNCHANGED <<owner, regHandle, regReleases, regVia, rec, refs, nrec,
                   nrecReleases, nrecBy>>
    /\ UNCHANGED <<queryVars, probe>>

\* Record::update_raw_record, lines 28-39: update_record with no flags;
\* answer is what the native layer says
UpdateAnswers == {"ok", "rejected"}

UpdateData == {<<1>>, <<2, 3>>}

\* Variant: the native answer is discarded and Ok(()) returned whatever it is.
UpdateRawRecord_SwallowsError(r, rdata, ttl, answer) ==
    /\ rec[r] = "live"
    /\ lastCall' = [op |-> "update_record", record |-> r, owner |-> owner,
                    flags |-> 0,
                    rdata |-> rdata, ttl |-> ttl,
                    answer |-> answer,
                    result |-> "Ok"]
    /\ usedReleased' = (usedReleased \/ regHandle = "released")
    /\ UNCHANGED <<owner, regHandle, regReleases, regVia, rec, refs, nrec,
                   nrecReleases, nrecBy>>
    /\ UNCHANGED <<queryVars, probe>>

UpdateRawRecord(r, rdata, ttl, answer) ==
    /\ rec[r] = "live"
    /\ lastCall' = [op |-> "update_record", record |-> r, owner |-> owner,
                    flags |-> 0,
                    rdata |-> rdata, ttl |-> ttl,
                    answer |-> answer,
                    result |-> IF answer = "ok" THEN "Ok" ELSE "NativeRejection"]
    /\ usedReleased' = (usedReleased \/ regHandle = "released")
    /\ UNCHANGED <<owner, regHandle, regReleases, regVia, rec, refs, nrec,
                   nrecReleases, nrecBy>>
    /\ UNCHANGED <<queryVars, probe>>

\* Variant: the Record holds its raw::DNSRecord in a wrapper that runs no
\* destructor, so the native record is not removed by the drop.
RecordDrop_NoRemove(r) ==
    /\ rec[r] = "live"
    /\ rec' = [rec EXCEPT ![r] = "dropped"]
    /\ refs' = refs \ {r}
    /\ RawRelease("record_drop", owner, refs \ {r}, nrec, nrecReleases, nrecBy)
    /\ UNCHANGED <<owner, lastCall, usedReleased>>
    /\ UNCHANGED <<queryVars, probe>>

\* Variant: the reference to the owner is let go first, so that the last
\* Record's drop releases the handle, and with it the record, before the
\* record itself is removed.
RecordDrop_RemovesAfterRelease(r) ==
    /\ rec[r] = "live"
    /\ rec' = [rec EXCEPT ![r] = "dropped"]
    /\ refs' = refs \ {r}
    /\ LET removed == nrec[r] = "registered"
           last == owner = "dropped" /\ refs \ {r} = {} /\ regHandle = "active"
       IN  RawRelease("record_drop", owner, refs \ {r},
                      IF removed /\ ~last THEN [nrec EXCEPT ![r] = "released"]
                                          ELSE nrec,
                      IF removed THEN [nrecReleases EXCEPT ![r] = @ + 1]
                                 ELSE nrecReleases,
                      IF removed /\ ~last THEN [nrecBy EXCEPT ![r] = "record_drop"]
                                          ELSE nrecBy)
    /\ UNCHANGED <<owner, lastCall, usedReleased>>
    /\ UNCHANGED <<queryVars, probe>>

\* Dropping a Record (line 15: it owns its raw::DNSRecord): the native
\* record is removed, then the reference to the owner is let go.
RecordDrop(r) ==
    /\ rec[r] = "live"
    /\ rec' = [rec EXCEPT ![r] = "dropped"]
    /\ refs' = refs \ {r}
    /\ LET removed == nrec[r] = "registered"
       IN  RawRelease("record_drop", owner, refs \ {r},
                      IF removed THEN [nrec EXCEPT ![r] = "released"] ELSE nrec,
                      IF removed THEN [nrecReleases EXCEPT ![r] = @ + 1]
                                 ELSE nrecReleases,
                      IF removed THEN [nrecBy EXCEPT ![r] = "record_drop"]
                                 ELSE nrecBy)
    /\ UNCHANGED <<owner, lastCall, usedReleased>>
    /\ UNCHANGED <<queryVars, probe>>

\* Variant: keep() with an empty body, so the value is dropped like any
\* other Record and the native record is removed at once.
RecordKeep_DropsNow(r) ==
    /\ rec[r] = "live"
    /\ rec' = [rec EXCEPT ![r] = "kept"]
    /\ refs' = refs \ {r}
    /\ LET removed == nrec[r] = "registered"
       IN  RawRelease("record_keep", owner, refs \ {r},
                      IF removed THEN [nrec EXCEPT ![r] = "released"] ELSE nrec,
                      IF removed THEN [nrecReleases EXCEPT ![r] = @ + 1]
                                 ELSE nrecReleases,
                      IF removed THEN [nrecBy EXCEPT ![r] = "record_drop"]
                                 ELSE nrecBy)
    /\ UNCHANGED <<owner, lastCall, usedReleased>>
    /\ UNCHANGED <<queryVars, probe>>

\* Variant: keep() as mem::forget(self): the reference to the owner is
\* never let go.
RecordKeep_Forgets(r) ==
    /\ rec[r] = "live"
    /\ rec' = [rec EXCEPT ![r] = "kept"]
    /\ UNCHANGED <<owner, regHandle, regReleases, regVia, refs, nrec,
                   nrecReleases, nrecBy, lastCall, usedReleased>>
    /\ UNCHANGED <<queryVars, probe>>

\* Variant: keep(&self): the reference to the owner is let go while the
\* Record value stays usable.
RecordKeep_ByReference(r) ==
    /\ rec[r] = "live"
    /\ r \in refs
    /\ refs' = refs \ {r}
    /\ RawRelease("record_keep", owner, refs \ {r}, nrec, nrecReleases, nrecBy)
    /\ UNCHANGED <<owner, rec, lastCall, usedReleased>>
    /\ UNCHANGED <<queryVars, probe>>

\* Record::keep, lines 44-46: self.0.keep() consumes the value without
\* removing the native record; the reference to the owner is let go.
RecordKeep(r) ==
    /\ rec[r] = "live"
    /\ rec' = [rec EXCEPT ![r] = "kept"]
    /\ refs' = refs \ {r}
    /\ RawRelease("record_keep", owner, refs \ {r}, nrec, nrecReleases, nrecBy)
    /\ UNCHANGED <<owner, lastCall, usedReleased>>
    /\ UNCHANGED <<queryVars, probe>>

\* The Registration/Connection value goes out of scope or is dropped
\* explicitly.
OwnerDrop ==
    /\ owner = "alive"
    /\ owner' = "dropped"
    /\ RawRelease("owner_drop", "dropped", refs, nrec, nrecReleases, nrecBy)
    /\ UNCHANGED <<rec, refs, lastCall, usedReleased>>
    /\ UNCHANGED <<queryVars, probe>>

RecordNext ==
    \/ \E r \in Records : AddRecord(r)
    \/ \E r \in Records : RrType(r)
    \/ \E r \in Records, d \in UpdateData, a \in UpdateAnswers :
           UpdateRawRecord(r, d, 60, a)
    \/ \E r \in Records : RecordDrop(r)
    \/ \E r \in Records : RecordKeep(r)
    \/ OwnerDrop

\* The lifetime of a query handle without its replies: start, drop,
\* release, free.
QueryLifecycle ==
    \/ \E o \in StartOutcomes : query_record(o)
    \/ QueryRecordDrop
    \/ ReleaseHandle
    \/ FreeSender

SpecR == Init /\ [][RecordNext \/ QueryLifecycle]_vars

Next == QueryNext \/ RecordNext

Spec == Init /\ [][Next]_vars

(***************************************************************************)
(*                              Properties                                 *)
(***************************************************************************)

\* C1: while the receiver is alive, the items yielded so far followed by the
\* items still buffered are exactly the items of the callback invocations,
\* one per invocation and in invocation order; so once the consumer has
\* drained the channel, N invocations have yielded exactly N items in order.
C1_FifoExactlyOnce ==
    receiver = "alive" =>
        /\ Len(invoked) = cbCount
        /\ Len(pushed) = cbCount
        /\ yielded \o channel = pushed
        /\ \A i \in 1 .. Len(pushed) : pushed[i] = CallbackData(invoked[i])
        /\ (channel = <<>> => yielded = pushed)

C1_Witness ==
    /\ receiver = "alive"
    /\ channel = <<>>
    /\ cbCount = 3
    /\ invoked = <<ArgsA, ArgsB, ArgsA>>
    /\ yielded = <<CallbackData(ArgsA), CallbackData(ArgsB), CallbackData(ArgsA)>>

\* C2: a callback invoked after the receiver was dropped returns normally:
\* no panic aborts the process or unwinds into the native caller.
C2_CallbackOnDroppedReceiverReturns ==
    cbRxDropped => crashed = "no"

\* C3: an invocation with a non-success error code produces an error item
\* carrying that code; only a fatal error of the process call, never such an
\* item, terminates the stream; and every later invocation still produces
\* its own item, which the consumer receives after the error item.
C3_ErrorItemDoesNotEndStream ==
    /\ (terminated => fatalSeen)
    /\ receiver = "alive" =>
         \A i \in 1 .. Len(invoked) :
            invoked[i].error_code # 0 =>
                /\ i <= Len(pushed)
                /\ ~pushed[i].ok
                /\ pushed[i].err = [kind |-> "ServiceError",
                                    code |-> invoked[i].error_code]
                /\ \A j \in (i + 1) .. Len(invoked) :
                      /\ (yielded \o channel)[j] = CallbackData(invoked[j])
                      /\ (j <= Len(yielded) =>
                            /\ yielded[i] = pushed[i]
                            /\ yielded[j] = CallbackData(invoked[j]))

C3_Witness ==
    /\ ~terminated
    /\ Len(yielded) >= 2
    /\ invoked[1] = ArgsErr
    /\ ~yielded[1].ok
    /\ yielded[2] = CallbackData(ArgsA)
    /\ lastPoll = "Item"

C5_SenderOutlivesCallbacks ==
    /\ ~cbSenderFreed
    /\ (sender = "freed" =>
          (handle = "released" \/ (handle = "none" /\ stream = "err_native")))
    /\ (handle = "active" => sender = "valid")

C5_Witness ==
    /\ cbCount >= 1
    /\ sender = "freed"
    /\ handle = "released"

\* C10: a fatal error of the native process call is returned as the
\* terminal error and makes the stream Terminated; Terminated is never
\* left, holds no wakeup registration, and every later poll returns
\* stream-ended.
C10_FatalErrorTerminates ==
    /\ [](fatalSeen => terminated)
    /\ [](terminated => ~wakeup)
    /\ [][(~fatalSeen /\ fatalSeen') => (lastPoll' = "Fatal" /\ terminated')]_vars
    /\ [][terminated => terminated']_vars
    /\ [][(terminated /\ polls' # polls) => (lastPoll' = "Ended")]_vars

C10_Witness ==
    /\ terminated
    /\ lastPoll = "Ended"
    /\ stream = "live"
    /\ cbCount >= 1

\* C6: a kept record's native resource is released exactly when the owning
\* handle is, and by that release; and once the owning handle is released
\* no record resource, kept or not, is left registered.
C6_KeptReleasedWithOwner ==
    /\ (regHandle = "released" => \A r \in Records : nrec[r] # "registered")
    /\ \A r \in Records :
          rec[r] = "kept" =>
              /\ (nrec[r] = "released" <=> regHandle = "released")
              /\ (nrec[r] = "released" => nrecBy[r] = "handle_release")
              /\ (regHandle = "active" => nrec[r] = "registered")

C6_Witness ==
    /\ regHandle = "released"
    /\ rec[1] = "kept" /\ nrec[1] = "released" /\ nrecBy[1] = "handle_release"
    /\ rec[2] = "dropped" /\ nrec[2] = "released"

\* C7: the native release of an owning handle is called at most once, and
\* exactly once when every value holding the handle is gone: a query
\* handle whose stream was dropped, a Registration/Connection whose owner
\* value was dropped and none of whose Records is left.
C7_ReleasedExactlyOnce ==
    /\ releases <= 1
    /\ regReleases <= 1
    /\ (handle = "released" <=> releases = 1)
    /\ (regHandle = "released" <=> regReleases = 1)
    /\ (stream = "dropped" => releases = 1)
    /\ ((owner = "dropped" /\ \A r \in Records : rec[r] # "live")
          => regReleases = 1)

C7_Witness ==
    /\ stream = "dropped" /\ releases = 1
    /\ owner = "dropped" /\ regReleases = 1
    /\ regVia = "record_drop"
    /\ \E r \in Records : rec[r] = "kept"

\* C8: while a Record value exists the native handle of its owner is not
\* released, so rr_type and update_raw_record never run against a released
\* owner.
C8_RecordKeepsOwnerAlive ==
    /\ \A r \in Records : rec[r] = "live" => (regHandle = "active" /\ r \in refs)
    /\ ~usedReleased

C8_Witness ==
    /\ owner = "dropped"
    /\ regHandle = "active"
    /\ lastCall.op = "update_record"
    /\ lastCall.owner = "dropped"
    /\ rec[lastCall.record] = "live"

C11_BadNameIsOneErrorItem ==
    /\ (terminated => fatalSeen)
    /\ receiver = "alive" =>
         /\ Len(yielded \o channel) = Len(invoked)
         /\ \A i \in 1 .. Len(invoked) :
              LET a == invoked[i]
                  item == (yielded \o channel)[i]
              IN  IF a.error_code = 0 /\ a.fullname = BadCStr
                  THEN /\ ~item.ok
                       /\ item.err.kind = "DecodingError"
                  ELSE a.error_code = 0 =>
                       /\ item.ok
                       /\ item.val.fullname = a.fullname
                       /\ item.val.rr_type = a.rr_type
                       /\ item.val.ttl = a.ttl

C11_Witness ==
    /\ ~terminated
    /\ invoked = <<ArgsA, ArgsBadName, ArgsB>>
    /\ Len(yielded) = 3
    /\ yielded[1].ok /\ yielded[1].val.fullname = "example.local."
    /\ ~yielded[2].ok /\ yielded[2].err.kind = "DecodingError"
    /\ yielded[3].ok /\ yielded[3].val.fullname = "b.local."


\* C12: update_raw_record hands the new rdata and ttl to the native layer
\* with no flags and returns Ok when the native layer accepts; when the
\* native layer rejects the update the caller gets NativeRejection; either
\* way the call changes neither the Record nor its owning handle, which
\* stay live, registered and unreleased.
C12_UpdateNoFlagsRejectionHarmless ==
    /\ [](lastCall.op = "update_record" =>
            /\ lastCall.flags = 0
            /\ (lastCall.answer = "ok" => lastCall.result = "Ok")
            /\ (lastCall.answer = "rejected" => lastCall.result = "NativeRejection"))
    /\ [][(lastCall' # lastCall /\ lastCall'.op = "update_record") =>
            /\ rec[lastCall'.record] = "live"
            /\ nrec[lastCall'.record] = "registered"
            /\ regHandle = "active"
            /\ rec' = rec /\ nrec' = nrec /\ refs' = refs
            /\ regHandle' = regHandle /\ regReleases' = regReleases
            /\ nrecReleases' = nrecReleases]_vars

C12_Witness ==
    /\ lastCall.op = "update_record"
    /\ lastCall.ttl = 60
    /\ lastCall.rdata = <<2, 3>>
    /\ lastCall.result = "NativeRejection"
    /\ rec[lastCall.record] = "live"
    /\ nrec[lastCall.record] = "registered"
    /\ regHandle = "active"
    /\ regReleases = 0


(***************************************************************************)
(* The conversions applied to inputs drawn from bounded sets.              *)
(***************************************************************************)
\* each behaviour applies one conversion to one input
ConvertQueryRecordFlags(b) ==
    /\ probe.op = "none"
    /\ probe' = [op |-> "flags", ty |-> "QueryRecordFlags", bits |-> b,
                 set |-> QueryRecordFlagsFrom(b),
                 native |-> QueryRecordFlagsInto(QueryRecordFlagsFrom(b))]
    /\ UNCHANGED <<queryVars, recordVars>>

ConvertQueriedRecordFlags(b) ==
    /\ probe.op = "none"
    /\ probe' = [op |-> "flags", ty |-> "QueriedRecordFlags", bits |-> b,
                 set |-> QueriedRecordFlagsFrom(b),
                 native |-> QueriedRecordFlagsInto(QueriedRecordFlagsFrom(b))]
    /\ UNCHANGED <<queryVars, recordVars>>

(***************************************************************************)
(* query_record_callback, lines 130-143, with the pointers it is handed.   *)
(* The data pointer is valid (it points at the rdata memory) or null; a    *)
(* null pointer comes with rd_len = 0 only.                                *)
(***************************************************************************)
DataPointers == {"valid", "null"}

\* slice::from_raw_parts(rdata, rd_len), line 132.  Its contract requires a
\* non-null pointer even for length 0; with a null pointer the behaviour
\* is undefined: the build either carries on with an empty slice or stops
\* on the precondition check.
FromRawPartsOutcomes(ptr, rdata, rd_len) ==
    IF ptr = "null"
    THEN {[result |-> "slice", val |-> <<>>], [result |-> "abort"]}
    ELSE {[result |-> "slice", val |-> FromRawParts(rdata, rd_len)]}

\* Variant: the name is decoded before the error code is looked at.
CallbackReads_DecodesNameFirst(a) ==
    {"fullname"} \cup
    (IF ErrorFrom(a.error_code).ok /\ FromCStr(a.fullname).ok /\ a.rd_len > 0
     THEN {"rdata"} ELSE {})

\* the pointer arguments the closure of lines 130-143 reads through:
\* fullname by from_cstr (line 131) once the error code is the success
\* code, rdata by the copy of rd_len bytes (line 140) once the name decoded
CallbackReads(a) ==
    IF ~ErrorFrom(a.error_code).ok THEN {}
    ELSE IF ~FromCStr(a.fullname).ok THEN {"fullname"}
    ELSE IF a.rd_len > 0 THEN {"fullname", "rdata"}
    ELSE {"fullname"}

\* whether line 132 is reached
ReachesFromRawParts(a) ==
    ErrorFrom(a.error_code).ok /\ FromCStr(a.fullname).ok

DecodeReply(a, ptr, out) ==
    /\ probe.op = "none"
    /\ ptr = "null" => a.rd_len = 0
    /\ out \in FromRawPartsOutcomes(ptr, a.rdata, a.rd_len)
    /\ ~ReachesFromRawParts(a) => out.result = "slice"
    /\ probe' = [op |-> "callback", args |-> a, rdata_ptr |-> ptr,
                 reads |-> CallbackReads(a),
                 outcome |-> IF ReachesFromRawParts(a) /\ out.result = "abort"
                             THEN "abort" ELSE "item",
                 item |-> CallbackData(a)]
    /\ UNCHANGED <<queryVars, recordVars>>

ConvertNext ==
    \/ \E b \in NativeWords : ConvertQueryRecordFlags(b)
    \/ \E b \in NativeWords : ConvertQueriedRecordFlags(b)
    \/ \E a \in CallbackArgs, ptr \in DataPointers :
          \E out \in FromRawPartsOutcomes(ptr, a.rdata, a.rd_len) :
             DecodeReply(a, ptr, out)

SpecP == Init /\ [][ConvertNext]_vars

\* C13: for every native flag word b, encoding the decoded flag set gives
\* b restricted to the bits the mapping table names, for QueryRecordFlags
\* and for QueriedRecordFlags; the decoded set holds no bit outside the
\* declared members, and bits the table does not name do not affect it.
C13_FlagRoundTripMasks ==
    probe.op = "flags" =>
        /\ probe.ty = "QueryRecordFlags" =>
              /\ probe.native = BitAnd(probe.bits, QueryKnownMask)
              /\ BitAnd(probe.set, QueryDeclared) = probe.set
              /\ probe.set = QueryRecordFlagsFrom(BitAnd(probe.bits, QueryKnownMask))
        /\ probe.ty = "QueriedRecordFlags" =>
              /\ probe.native = BitAnd(probe.bits, QueriedKnownMask)
              /\ BitAnd(probe.set, QueriedDeclared) = probe.set
              /\ probe.set = QueriedRecordFlagsFrom(BitAnd(probe.bits, QueriedKnownMask))

C13_Witness ==
    /\ probe.op = "flags"
    /\ probe.ty = "QueriedRecordFlags"
    /\ probe.bits = 262
    /\ probe.set = 2
    /\ probe.native = 2


\* C14: a successful callback invocation pushes an item whose fields equal
\* the callback's arguments: the decoded name, rr_type, rr_class and ttl
\* unchanged, rdata exactly the rd_len bytes given, the interface of the
\* given index, and flags holding exactly the known bits of the native
\* flags; for "example.local.", type 1, class 1, rdata [127,0,0,1], ttl 120
\* and native flags Add, the item has Add set and MoreComing clear.
C14_ItemFieldsEqualArguments ==
    /\ Len(pushed) = Len(invoked)
    /\ \A i \in 1 .. Len(invoked) :
         LET a == invoked[i]
             item == pushed[i]
         IN  (a.error_code = 0 /\ a.fullname # BadCStr) =>
               /\ item.ok
               /\ item.val.fullname = a.fullname
               /\ item.val.rr_type = a.rr_type
               /\ item.val.rr_class = a.rr_class
               /\ item.val.ttl = a.ttl
               /\ Len(item.val.rdata) = a.rd_len
               /\ \A j \in 1 .. a.rd_len : item.val.rdata[j] = a.rdata[j]
               /\ InterfaceIntoRaw(item.val.interface) = a.interface_index
               /\ QueriedRecordFlagsInto(item.val.flags) = BitAnd(a.flags, QueriedKnownMask)
               /\ BitAnd(item.val.flags, QueriedDeclared) = item.val.flags
               /\ (a = ArgsA =>
                     /\ item.val.fullname = "example.local."
                     /\ item.val.rr_type = 1 /\ item.val.rr_class = 1
                     /\ item.val.rdata = <<127, 0, 0, 1>>
                     /\ item.val.ttl = 120
                     /\ FlagsContain(item.val.flags, Add)
                     /\ ~FlagsContain(item.val.flags, MoreComing))
    /\ \A i \in 1 .. Len(yielded) : yielded[i] = pushed[i]

C14_Witness ==
    /\ invoked = <<ArgsA, ArgsB>>
    /\ Len(yielded) = 2
    /\ yielded[1].ok /\ yielded[1].val.fullname = "example.local."
    /\ yielded[1].val.rdata = <<127, 0, 0, 1>>
    /\ FlagsContain(yielded[1].val.flags, Add)
    /\ yielded[2].ok /\ yielded[2].val.rr_type = 16 /\ yielded[2].val.rr_class = 1
    /\ yielded[2].val.interface = [kind |-> "Index", index |-> 3]
    /\ yielded[2].val.rdata = <<>>


\* C15: a successful callback invocation with rd_len = 0 produces an item
\* whose rdata is the empty byte sequence, without reading through the
\* data pointer, whatever the pointer is, null included.
C15_ZeroLengthNeverTouchesPointer ==
    (/\ probe.op = "callback"
     /\ probe.args.error_code = 0
     /\ probe.args.fullname # BadCStr
     /\ probe.args.rd_len = 0) =>
        /\ probe.outcome = "item"
        /\ probe.item.ok
        /\ probe.item.val.rdata = <<>>
        /\ "rdata" \notin probe.reads

\* C17: on a non-success native error code the callback reads through
\* neither the name pointer nor the data pointer, and the item it builds
\* is the typed error carrying that code.
C17_ErrorReplyReadsNoPointer ==
    (probe.op = "callback" /\ probe.args.error_code # 0) =>
        /\ probe.reads = {}
        /\ probe.outcome = "item"
        /\ ~probe.item.ok
        /\ probe.item.err = [kind |-> "ServiceError", code |-> probe.args.error_code]

C17_Witness ==
    /\ probe.op = "callback"
    /\ probe.args = ArgsErr
    /\ probe.rdata_ptr = "null"
    /\ probe.reads = {}
    /\ probe.item = [ok |-> FALSE, err |-> [kind |-> "ServiceError", code |-> -65537]]


\* C16: every poll follows the three-state machine.  A poll made while an
\* item is buffered (Draining) returns exactly one item, the oldest, does
\* not drive the bridge, and leaves the stream Idle exactly when the
\* channel is then empty.  A poll made while Idle drives the bridge once
\* (at most one batch of callbacks, or a fatal error); if that buffered no
\* item the poll returns NotReady, yields nothing, stays Idle and registers
\* for wakeup.  A poll made while Terminated returns stream-ended.
C16_PollFollowsStateMachine ==
    [][(polls' # polls) =>
        /\ (StreamState = "Draining") =>
              /\ yielded' = Append(yielded, Head(channel))
              /\ channel' = Tail(channel)
              /\ lastPoll' = (IF Head(channel).ok THEN "Item" ELSE "ItemErr")
              /\ invoked' = invoked /\ pushed' = pushed /\ cbCount' = cbCount
              /\ ~terminated'
              /\ (StreamState' = "Idle") <=> (Len(channel) = 1)
        /\ (StreamState = "Idle") =>
              /\ Len(invoked') - Len(invoked) \in 0 .. MaxBatch
              /\ cbCount' - cbCount = Len(invoked') - Len(invoked)
              /\ (pushed' = pushed /\ ~fatalSeen') =>
                    /\ lastPoll' = "NotReady"
                    /\ yielded' = yielded
                    /\ channel' = <<>>
                    /\ StreamState' = "Idle"
                    /\ wakeup'
              /\ (pushed' # pushed) =>
                    /\ Len(yielded') = Len(yielded) + 1
                    /\ lastPoll' \in {"Item", "ItemErr"}
              /\ fatalSeen' => (terminated' /\ lastPoll' = "Fatal" /\ pushed' = pushed)
        /\ (StreamState = "Terminated") =>
              /\ lastPoll' = "Ended"
              /\ yielded' = yielded /\ channel' = channel /\ invoked' = invoked
       ]_vars

C16_Witness ==
    /\ ~terminated
    /\ lastPoll = "NotReady"
    /\ wakeup
    /\ channel = <<>>
    /\ Len(yielded) = 2
    /\ Len(invoked) = 2


\* C18: when query_record fails at call time (the name does not convert,
\* the native start-query call answers an error, or the bridge cannot be
\* set up) there is no stream, no native handle is left unreleased, and
\* the callback is never invoked and nothing is ever yielded for the
\* request; a name that does not convert fails before any native
\* start-query call is made.
C18_StartFailureLeavesNothing ==
    (stream \in {"err_name", "err_native", "err_evented"}) =>
        /\ handle # "active"
        /\ (handle = "released") <=> (releases = 1)
        /\ receiver # "alive"
        /\ sender # "valid"
        /\ cbCount = 0 /\ invoked = <<>> /\ pushed = <<>> /\ channel = <<>>
        /\ yielded = <<>> /\ lastPoll = "none" /\ polls = 0
        /\ crashed = "no"
        /\ (stream = "err_name") => (startCalls = 0 /\ handle = "none" /\ releases = 0)
        /\ (stream = "err_native") => (startCalls = 1 /\ handle = "none" /\ releases = 0)
        /\ (stream = "err_evented") => (startCalls = 1 /\ handle = "released")

C18_Witness ==
    /\ stream = "err_native"
    /\ startCalls = 1
    /\ handle = "none"
    /\ cbCount = 0


\* C19: a record's native resource is released at most once over any
\* sequence of keep, Record drop and owning-handle release: the count of
\* native releases is 1 exactly when the resource is released and 0
\* otherwise, a release is never followed by another, a record released
\* by its own drop stays released once when the owning handle is released
\* later, and a kept record is released once, by the handle's release.
C19_RecordReleasedAtMostOnce ==
    /\ [](\A r \in Records :
            /\ nrecReleases[r] \in {0, 1}
            /\ (nrecReleases[r] = 1) <=> (nrec[r] = "released")
            /\ (nrecReleases[r] = 0) <=> (nrecBy[r] = "none")
            /\ (rec[r] = "kept" /\ regHandle = "released") =>
                  (nrecReleases[r] = 1 /\ nrecBy[r] = "handle_release")
            /\ (rec[r] = "dropped" /\ regHandle = "released") =>
                  (nrecReleases[r] = 1 /\ nrecBy[r] = "record_drop"))
    /\ [][\A r \in Records :
            (nrecReleases[r] = 1) =>
                (nrecReleases'[r] = 1 /\ nrecBy'[r] = nrecBy[r])]_vars

C19_Witness ==
    /\ regHandle = "released"
    /\ regVia = "owner_drop"
    /\ rec[1] = "dropped" /\ nrecReleases[1] = 1 /\ nrecBy[1] = "record_drop"
    /\ rec[2] = "kept" /\ nrecReleases[2] = 1 /\ nrecBy[2] = "handle_release"


(***************************************************************************)
(* The query side with a consumer that never drops the stream and keeps    *)
(* polling it: the task is polled again after every item, and after a      *)
(* NotReady whenever its registered wakeup is delivered.                   *)
(***************************************************************************)
ConsumerPolls ==
    \E proc \in ProcessOutcomes, batch \in Batches : QueryRecordPoll(proc, batch)

LiveNext ==
    \/ \E o \in StartOutcomes : query_record(o)
    \/ \E a \in CallbackArgs : NativeCallback(a)
    \/ ConsumerPolls

SpecLive == Init /\ [][LiveNext]_vars /\ WF_vars(ConsumerPolls)

====
